---- MODULE Spec2Model ----
(***************************************************************************)
(* The dual-thread capture-and-finalize pipeline of the screen recorder:   *)
(* ScreenRecorder (video_recorder.py) and SimpleScreenRecorder             *)
(* (recorder-app.py).  One controller object, one caller thread that runs  *)
(* set_metadata / start_recording / stop_recording, and the video and      *)
(* audio loop threads each start_recording launches.                       *)
(***************************************************************************)
EXTENDS Integers, Sequences, FiniteSets, TLC

(* ---------------------------------------------------------------- bounds *)
\* sessions of one controller: start_recording calls that get past the
\* "already recording" guard, in the runs with the clock and the metadata (Spec)
\* and in the runs that follow the threads across sessions (SpecRace)
MaxSessions == 1
MaxRaceSessions == 2
\* chunks the audio buffer holds before the audio device stops delivering
MaxChunks == 2
\* frames one container holds before the screen stops delivering
MaxFrames == 2
\* seconds of wall clock (the timestamp has one-second resolution)
MaxTime == 1
\* calls into the environment (device, file system, subprocess) that fail in one run
MaxFaults == 1
\* characters of the longest candidate name the sanitizer is applied to
MaxLen == 3
\* ticks of the clock the pacing of the video loop is followed for, the ticks
\* that make a second, and the captures followed
MaxTicks == 8
TicksPerSecond == 6
MaxCaptures == 4
\* recorders the front end creates (one per press of Start)
MaxRecorders == 2
\* frames followed for their size
MaxWritten == 3
\* "for i in range(5, 0, -1)": the seconds of the start countdown
CountdownSeconds == 5

Sessions == 1..MaxRaceSessions

(* ------------------------------------------------------------ vocabulary *)
None == 0

\* a dict: a function whose domain is the set of keys present
EmptyDict == [k \in {} |-> None]
Has(d, k) == k \in DOMAIN d
\* d[k] = v
Put(d, k, v) == [x \in DOMAIN d \cup {k} |-> IF x = k THEN v ELSE d[x]]
\* del d[k]
Del(d, k) == [x \in DOMAIN d \ {k} |-> d[x]]

\* candidate names the caller may supply (sequences of characters)
Names == {<< >>, <<"J", "'", "b">>}
\* the characters names are made of here, and those of them str.isalnum() accepts
Chars == {"J", "b", "7", "'", " ", "_"}
Alnum == {"J", "b", "7"}

\* the characters isalnum() rejects are left out instead of replaced
DropsNonAlnum(name) == SelectSeq(name, LAMBDA c : c \in Alnum)

\* "".join(c if c.isalnum() else "_" for c in name)
Sanitize(name) == [i \in DOMAIN name |-> IF name[i] \in Alnum THEN name[i] ELSE "_"]

\* base_filename: the sanitized candidate name, or the fixed prefix, then the timestamp
BaseFilename(md, ts) ==
    IF Has(md, "candidate_name") /\ md.candidate_name # << >>
    THEN <<Sanitize(md.candidate_name), "_interview_", ts>>
    ELSE <<"screen_recording_", ts>>

\* a path: the base file name and its suffix (the suffix decides the directory:
\* "_temp.avi" lives under <output_dir>/temp, the others under <output_dir>)
PathOf(base, suffix) == <<base, suffix>>
NoPath == <<>>

\* values a caller may supply under the names of fields the controller fills in
SuppliedTime == -1
SuppliedFile == PathOf(<<"x">>, "_video.mp4")

\* the keyword arguments of one set_metadata call
Kwargs ==
    {[candidate_name |-> n] : n \in Names}
      \cup {[video_file |-> SuppliedFile, end_time |-> SuppliedTime]}

\* d = kw: the dict replaced instead of updated
Replace(d, kw) == kw

\* d.update(kw)
Merge(d, kw) == [k \in DOMAIN d \cup DOMAIN kw |-> IF k \in DOMAIN kw THEN kw[k] ELSE d[k]]

\* os.path.splitext(video_file)[0] + "_metadata.json"
MetadataPath(video_file) == PathOf(video_file[1], "_video_metadata.json")

\* the extension left as it is
KeepsMp4(path) == path

\* the fallback name built afresh, from the fixed prefix and the timestamp
RecomputesPath(path) == PathOf(<<"screen_recording_", path[1][Len(path[1])]>>, "_video.avi")

\* self.video_path.replace('.mp4', '.avi')
ReplaceMp4(path) == IF path[2] = "_video.mp4" THEN PathOf(path[1], "_video.avi") ELSE path

VARIABLES
    cls,              \* which controller class this object is
    ffmpeg_available, \* self.ffmpeg_available, probed by __init__
    recording,        \* self.recording
    video_writer,     \* self.video_writer: None or the writer of a session
    writers,          \* each cv2.VideoWriter: "unopened", "failed", "open", "released"
    audio_stream,     \* self.audio_stream: None (no attribute) or a stream
    streams,          \* each PyAudio stream: "unopened", "open", "closed"
    audio_frames,     \* self.audio_frames: <<thread, stream>> per chunk
    metadata,         \* self.metadata
    supplied,         \* history: the pairs the caller has supplied through set_metadata
    temp_video_path, video_path, audio_path,
    video_thread, audio_thread,  \* self.video_thread / self.audio_thread
    vpc, apc,         \* position of each session's video / audio loop thread
    ard,              \* the stream each audio thread's read in flight was issued on
    files,            \* the file system under <output_dir>: path -> content
    nsess,            \* sessions created so far
    left,             \* sessions the caller may still create
    now,              \* wall clock, seconds
    pc, op, ret,      \* the caller: position, last start/stop call and its result
    nfaults           \* history: failed device / file-system / subprocess calls and
                      \* join timeouts so far (it stops counting at MaxFaults)

ctl == <<recording, video_writer, audio_stream, audio_frames, metadata,
         temp_video_path, video_path, audio_path, video_thread, audio_thread>>
res == <<writers, streams, files>>
thr == <<vpc, apc, ard>>
core == <<cls, ffmpeg_available, supplied, ctl, res, thr, nsess, left, now, pc, op, ret, nfaults>>

\* One video loop seen at the grain of its pacing (lines 276-311; 187-234):
\* time in ticks, TicksPerSecond of them to the second.
VARIABLES
    fps,               \* self.fps, frames per second
    clock,             \* time.time(), in ticks
    last_capture_time, \* the loop's local of that name
    current_time,      \* the loop's local of that name
    ppc,               \* the loop's position: "unstarted", "loop", "decide"
    captures           \* history: the time each capture was started at

pace == <<fps, clock, last_capture_time, current_time, ppc, captures>>

\* no loop is being watched at that grain
PaceIdle ==
    /\ fps = 1 /\ clock = 0 /\ last_capture_time = 0 /\ current_time = 0
    /\ ppc = "unstarted" /\ captures = << >>

\* The desktop front end, RecorderApp (lines 355-566), and the recorders it
\* creates, each seen through its recording flag only.
VARIABLES
    app_recording,  \* RecorderApp.recording
    recorder,       \* RecorderApp.recorder: None or the recorder created last
    start_button,   \* state of the Start button: "normal" or "disabled"
    stop_button,    \* state of the Stop button
    recorders,      \* each ScreenRecorder the app has created: "uncreated", "idle",
                    \* "recording", "stopped" (by stop_recording) or "halted" (by a loop)
    countdown       \* each countdown thread: NoThread, the seconds it still
                    \* sleeps, or Fired once it has called start_recording

app == <<app_recording, recorder, start_button, stop_button, recorders, countdown>>

Recorders == 1..MaxRecorders
NoThread == -2
Fired == -1

\* RecorderApp.__init__ (lines 356-369) and the buttons as setup_ui creates
\* them (lines 444-448)
AppInit ==
    /\ app_recording = FALSE /\ recorder = None
    /\ start_button = "normal" /\ stop_button = "disabled"
    /\ recorders = [r \in Recorders |-> "uncreated"]
    /\ countdown = [r \in Recorders |-> NoThread]

\* The sizes of the frames of one session (recorder-app.py lines 82-96,
\* 194-231; video_recorder.py lines 121-129, 285-299).
VARIABLES
    region,     \* self.region: NoRegion or <<left, top, width, height>>
    screen,     \* the size of the display, <<width, height>>
    container,  \* the frame size the VideoWriter was opened with; << >> before
    frames_written  \* history: the size of each frame handed to video_writer.write

frm == <<region, screen, container, frames_written>>

NoRegion == << >>
\* self.resolution = (1280, 720)
Resolution == <<1280, 720>>

\* no session is being watched for its frame sizes
FrameIdle ==
    /\ region = NoRegion /\ screen = Resolution /\ container = << >> /\ frames_written = << >>

aux == <<pace, app, frm>>
AuxIdle == PaceIdle /\ AppInit /\ FrameIdle

vars == <<core, aux>>

\* Thread.is_alive()
VideoLive(t) == vpc[t] \in {"check", "capture"}
AudioLive(t) == apc[t] \in {"check", "read"}

(* ------------------------------------------------------------- __init__ *)
InitController ==
    /\ cls \in {"ScreenRecorder", "SimpleScreenRecorder"}
    /\ ffmpeg_available \in (IF cls = "ScreenRecorder" THEN BOOLEAN ELSE {FALSE})
    /\ recording = FALSE
    /\ video_writer = None
    /\ writers = [s \in Sessions |-> "unopened"]
    /\ audio_stream = None
    /\ streams = [s \in Sessions |-> "unopened"]
    /\ audio_frames = << >>
    /\ metadata = EmptyDict
    /\ supplied = EmptyDict
    /\ temp_video_path = NoPath /\ video_path = NoPath /\ audio_path = NoPath
    /\ video_thread = None /\ audio_thread = None
    /\ vpc = [s \in Sessions |-> "unstarted"]
    /\ apc = [s \in Sessions |-> "unstarted"]
    /\ ard = [s \in Sessions |-> None]
    /\ files = EmptyDict
    /\ nsess = 0
    /\ now = 0
    /\ pc = "idle" /\ op = "none" /\ ret = "none"
    /\ nfaults = 0

Init == InitController /\ left = MaxSessions /\ AuxIdle

InitRace == InitController /\ left = MaxRaceSessions /\ AuxIdle

\* what a call into the environment may do: succeed (TRUE) or, while the run's
\* failures are not used up, fail (FALSE)
Outcomes == IF nfaults < MaxFaults THEN BOOLEAN ELSE {TRUE}
\* the failures counted after a call that succeeded (ok) or failed
Count(ok) == IF ok THEN nfaults ELSE nfaults + 1

\* the caller returns from the operation with a result
Return(r) == pc' = "idle" /\ ret' = r

(* --------------------------------------------------------- set_metadata *)
set_metadata(kwargs) ==
    /\ pc = "idle"
    /\ metadata' = Merge(metadata, kwargs)
    /\ supplied' = Merge(supplied, kwargs)
    /\ UNCHANGED <<aux, cls, ffmpeg_available, recording, video_writer, audio_stream, audio_frames,
                   temp_video_path, video_path, audio_path, video_thread, audio_thread,
                   res, thr, nsess, left, now, pc, op, ret, nfaults>>

(* ------------------------------------------------------- _save_metadata *)
\* the file system after _save_metadata() of md at time ts: the write may fail (ok
\* is FALSE), which is logged only
SaveMetadata(fs, md, ts, ok) ==
    IF md = EmptyDict \/ ~ok THEN fs
    ELSE LET metadata_path == IF Has(md, "video_file")
                              THEN MetadataPath(md.video_file)
                              ELSE PathOf(<<"recording_metadata_", ts>>, ".json")
         IN Put(fs, metadata_path, [kind |-> "json", data |-> md])

(* ------------------------------------------------------ start_recording *)
\* the guard left out
StartNeverRejected == FALSE

\* "if self.recording: return False"
StartRejected == recording

\* the failed open goes unnoticed: start_recording carries on
StartIgnoresOpenFailure == pc' = "start_audio" /\ ret' = "pending"

\* "if not self.video_writer.isOpened(): return False" (lines 131-133; 98-99)
StartOpenFailed == Return("False")

\* lines 95-133 (62-99): the guard, the file names, the intermediate container
start_recording ==
    /\ pc = "idle"
    /\ op' = "start"
    /\ IF StartRejected
       THEN /\ Return("False")
            /\ UNCHANGED <<aux, cls, ffmpeg_available, supplied, ctl, res, thr, nsess, left, now, nfaults>>
       ELSE /\ left > 0
            /\ LET sid == nsess + 1
                   base_filename == BaseFilename(metadata, now)
               IN /\ nsess' = sid
                  /\ left' = left - 1
                  /\ temp_video_path' = PathOf(base_filename, "_temp.avi")
                  /\ audio_path' = PathOf(base_filename, "_audio.wav")
                  /\ video_path' = PathOf(base_filename,
                                         IF cls = "ScreenRecorder" THEN "_video.mp4" ELSE "_video.avi")
                  /\ video_writer' = sid
                  /\ \E isOpened \in Outcomes :
                        /\ nfaults' = Count(isOpened)
                        /\ IF isOpened
                           THEN /\ writers' = [writers EXCEPT ![sid] = "open"]
                                /\ files' = Put(files, temp_video_path',
                                                 [kind |-> "avi", frames |-> << >>])
                                /\ pc' = "start_audio" /\ ret' = "pending"
                           ELSE /\ writers' = [writers EXCEPT ![sid] = "failed"]
                                /\ StartOpenFailed
                                /\ UNCHANGED files
            /\ UNCHANGED <<aux, cls, ffmpeg_available, supplied, recording, audio_stream, audio_frames, metadata,
                           video_thread, audio_thread, streams, thr, now>>

\* lines 135-148 (101-110): the audio stream is opened and the buffer reset;
\* self.audio.open raises when the input device cannot be opened
StartOpenAudio ==
    /\ pc = "start_audio"
    /\ \E opened \in Outcomes :
          /\ nfaults' = Count(opened)
          /\ IF opened
             THEN /\ audio_stream' = nsess
                  /\ streams' = [streams EXCEPT ![nsess] = "open"]
                  /\ audio_frames' = << >>
                  /\ pc' = "start_flag"
                  /\ UNCHANGED ret
             ELSE /\ Return("raised")
                  /\ UNCHANGED <<audio_stream, streams, audio_frames>>
    /\ UNCHANGED <<aux, cls, ffmpeg_available, supplied, recording, video_writer, metadata, temp_video_path,
                   video_path, audio_path, video_thread, audio_thread, writers, files,
                   thr, nsess, left, now, op>>

\* line 151 (113): self.recording = True
StartSetFlag ==
    /\ pc = "start_flag"
    /\ recording' = TRUE
    /\ pc' = "start_video_thread"
    /\ UNCHANGED <<aux, cls, ffmpeg_available, supplied, video_writer, audio_stream, audio_frames, metadata,
                   temp_video_path, video_path, audio_path, video_thread, audio_thread,
                   res, thr, nsess, left, now, op, ret, nfaults>>

\* lines 154-156 (116-118): the video loop thread is created and started
StartVideoThread ==
    /\ pc = "start_video_thread"
    /\ video_thread' = nsess
    /\ vpc' = [vpc EXCEPT ![nsess] = "check"]
    /\ pc' = "start_audio_thread"
    /\ UNCHANGED <<aux, cls, ffmpeg_available, supplied, recording, video_writer, audio_stream, audio_frames,
                   metadata, temp_video_path, video_path, audio_path, audio_thread,
                   res, apc, ard, nsess, left, now, op, ret, nfaults>>

\* the metadata start_recording adds (lines 164-166; 126-128)
StartMetadata(md, ts) ==
    Put(Put(Put(md, "start_time", ts), "video_file", video_path), "audio_file", audio_path)

\* ScreenRecorder.start_recording persists the metadata (line 172);
\* SimpleScreenRecorder.start_recording does not
StartSaves == cls = "ScreenRecorder"

\* lines 159-176 (121-130): the audio loop thread is created and started;
\* start_time and the file names go into the metadata, which ScreenRecorder
\* persists; start returns True.  The timestamp is the one taken at line 102
\* (68), the one the paths carry.
StartAudioThread ==
    /\ pc = "start_audio_thread"
    /\ audio_thread' = nsess
    /\ apc' = [apc EXCEPT ![nsess] = "check"]
    /\ LET timestamp == temp_video_path[1][Len(temp_video_path[1])] IN
         /\ metadata' = StartMetadata(metadata, timestamp)
         /\ \E ok \in (IF StartSaves THEN Outcomes ELSE {TRUE}) :
               /\ files' = IF StartSaves THEN SaveMetadata(files, metadata', now, ok) ELSE files
               /\ nfaults' = Count(ok)
    /\ Return("True")
    /\ UNCHANGED <<aux, cls, ffmpeg_available, supplied, recording, video_writer, audio_stream, audio_frames,
                   temp_video_path, video_path, audio_path, video_thread,
                   writers, streams, vpc, ard, nsess, left, now, op>>

(* ------------------------------------------------------- stop_recording *)
\* the guard left out
StopNeverRejected == FALSE

\* "if not self.recording: return False"
StopRejected == ~recording

\* lines 178-185 (132-138): the guard, then the flag is cleared
stop_recording ==
    /\ pc = "idle"
    /\ op' = "stop"
    /\ IF StopRejected
       THEN /\ Return("False")
            /\ UNCHANGED recording
       ELSE /\ recording' = FALSE
            /\ pc' = "stop_join_video" /\ ret' = "pending"
    /\ UNCHANGED <<aux, cls, ffmpeg_available, supplied, video_writer, audio_stream, audio_frames, metadata,
                   temp_video_path, video_path, audio_path, video_thread, audio_thread,
                   res, thr, nsess, left, now, nfaults>>

\* a join without the timeout
JoinWaits(alive) == ~alive

\* thread.join(timeout=3.0) returns when the thread has ended or when the
\* timeout has elapsed, whichever comes first
JoinReturns(alive) == TRUE

\* a join that timed out on a live thread is counted with the failures
Stalls(alive) == IF alive /\ nfaults < MaxFaults THEN nfaults + 1 ELSE nfaults

\* lines 188-189 (141-142)
StopJoinVideo ==
    /\ pc = "stop_join_video"
    /\ LET alive == video_thread # None /\ VideoLive(video_thread) IN
         /\ JoinReturns(alive)
         /\ nfaults' = Stalls(alive)
    /\ pc' = "stop_join_audio"
    /\ UNCHANGED <<aux, cls, ffmpeg_available, supplied, ctl, res, thr, nsess, left, now, op, ret>>

\* the transcode/copy step comes straight after the joins
JoinsThenTranscode == pc' = "stop_video"

\* after the joins comes the release of the container (lines 194-197;
\* 147-150), then the stream, the WAV file and only then the transcode/copy
JoinsThenRelease == pc' = "stop_release"

\* lines 191-192 (144-145)
StopJoinAudio ==
    /\ pc = "stop_join_audio"
    /\ LET alive == audio_thread # None /\ AudioLive(audio_thread) IN
         /\ JoinReturns(alive)
         /\ nfaults' = Stalls(alive)
    /\ JoinsThenRelease
    /\ UNCHANGED <<aux, cls, ffmpeg_available, supplied, ctl, res, thr, nsess, left, now, op, ret>>

\* lines 194-197 (147-150): the container is released
StopRelease ==
    /\ pc = "stop_release"
    /\ IF video_writer # None
       THEN /\ video_writer' = None
            /\ writers' = IF writers[video_writer] = "open"
                          THEN [writers EXCEPT ![video_writer] = "released"]
                          ELSE writers
       ELSE UNCHANGED <<video_writer, writers>>
    /\ pc' = "stop_close_stream"
    /\ UNCHANGED <<aux, cls, ffmpeg_available, supplied, recording, audio_stream, audio_frames, metadata,
                   temp_video_path, video_path, audio_path, video_thread, audio_thread,
                   streams, files, thr, nsess, left, now, op, ret, nfaults>>

\* lines 199-203 (152-156): stop_stream / close / terminate, outside any try:
\* an error of the audio device here leaves stop_recording as an exception
StopCloseStream ==
    /\ pc = "stop_close_stream"
    /\ IF audio_stream # None
       THEN \E closed \in Outcomes :
              /\ nfaults' = Count(closed)
              /\ IF closed /\ streams[audio_stream] = "open"
                 THEN /\ streams' = [streams EXCEPT ![audio_stream] = "closed"]
                      /\ pc' = "stop_wav"
                      /\ UNCHANGED ret
                 ELSE /\ Return("raised")
                      /\ UNCHANGED streams
       ELSE /\ pc' = "stop_wav"
            /\ UNCHANGED <<ret, nfaults, streams>>
    /\ UNCHANGED <<aux, cls, ffmpeg_available, supplied, ctl, writers, files, thr, nsess, left, now, op>>

\* lines 205-215 (158-167): the buffer is written to the WAV file, inside a try
StopWriteWav ==
    /\ pc = "stop_wav"
    /\ IF audio_frames # << >>
       THEN \E written \in Outcomes :
              /\ files' = IF written
                          THEN Put(files, audio_path, [kind |-> "wav", data |-> audio_frames])
                          ELSE files
              /\ nfaults' = Count(written)
       ELSE UNCHANGED <<files, nfaults>>
    /\ pc' = "stop_video"
    /\ UNCHANGED <<aux, cls, ffmpeg_available, supplied, ctl, writers, streams, thr, nsess, left, now, op, ret>>

\* os.path.exists(path)
Exists(fs, path) == Has(fs, path)

\* nothing is copied
CopyNothing(fs, src, dst) == fs

\* shutil.copy(src, dst)
Copy(fs, src, dst) == Put(fs, dst, fs[src])

\* os.remove(path)
Remove(fs, path) == Del(fs, path)

\* what ffmpeg leaves at dst for the intermediate file src
Transcode(fs, src, dst) == Put(fs, dst, [kind |-> "mp4", frames |-> fs[src].frames])

\* ScreenRecorder, lines 217-264: ffmpeg re-encodes the intermediate file, with
\* a plain copy under the .avi name when ffmpeg is absent or fails.  ran is
\* whether subprocess.run came back with exit code 0, copied whether shutil.copy
\* succeeds.  Only the ffmpeg branch is inside a try, and its handler copies
\* again outside one, so a copy that fails leaves stop_recording as an
\* exception on either branch.
StopTranscode ==
    /\ pc = "stop_video"
    /\ cls = "ScreenRecorder"
    /\ IF ffmpeg_available /\ Exists(files, temp_video_path)
       THEN \E ran \in Outcomes :
              IF ran
              THEN /\ files' = Remove(Transcode(files, temp_video_path, video_path),
                                      temp_video_path)
                   /\ pc' = "stop_end_time"
                   /\ UNCHANGED <<video_path, ret, nfaults>>
              ELSE \E copied \in (IF nfaults + 1 < MaxFaults THEN BOOLEAN ELSE {TRUE}) :
                     IF copied
                     THEN /\ files' = Copy(files, temp_video_path, ReplaceMp4(video_path))
                          /\ video_path' = ReplaceMp4(video_path)
                          /\ nfaults' = nfaults + 1
                          /\ pc' = "stop_end_time"
                          /\ UNCHANGED ret
                     ELSE /\ nfaults' = nfaults + 2
                          /\ Return("raised")
                          /\ UNCHANGED <<files, video_path>>
       ELSE \E copied \in Outcomes :
              /\ nfaults' = Count(copied)
              /\ IF copied /\ Exists(files, temp_video_path)
                 THEN /\ files' = Copy(files, temp_video_path, ReplaceMp4(video_path))
                      /\ video_path' = ReplaceMp4(video_path)
                      /\ pc' = "stop_end_time"
                      /\ UNCHANGED ret
                 ELSE /\ Return("raised")
                      /\ UNCHANGED <<files, video_path>>
    /\ UNCHANGED <<aux, cls, ffmpeg_available, supplied, recording, video_writer, audio_stream, audio_frames,
                   metadata, temp_video_path, audio_path, video_thread, audio_thread,
                   writers, streams, thr, nsess, left, now, op>>

\* SimpleScreenRecorder, lines 169-176: copy and remove, inside a try
StopCopy ==
    /\ pc = "stop_video"
    /\ cls = "SimpleScreenRecorder"
    /\ \E copied \in Outcomes :
          /\ nfaults' = Count(copied)
          /\ files' = IF copied /\ Exists(files, temp_video_path)
                      THEN Remove(Copy(files, temp_video_path, video_path), temp_video_path)
                      ELSE files
    /\ pc' = "stop_end_time"
    /\ UNCHANGED <<aux, cls, ffmpeg_available, supplied, ctl, writers, streams, thr, nsess, left, now, op, ret>>

\* end_time left out
StopMetadataWithoutEnd(md, ts) == md

\* the metadata stop_recording adds (line 267; 179)
StopMetadata(md, ts) == Put(md, "end_time", ts)

\* lines 266-270 (178-182): end_time, the final metadata file, return True
StopSaveMetadata ==
    /\ pc = "stop_end_time"
    /\ metadata' = StopMetadata(metadata, now)
    /\ \E ok \in Outcomes :
          /\ files' = SaveMetadata(files, metadata', now, ok)
          /\ nfaults' = Count(ok)
    /\ Return("True")
    /\ UNCHANGED <<aux, cls, ffmpeg_available, supplied, recording, video_writer, audio_stream, audio_frames,
                   temp_video_path, video_path, audio_path, video_thread, audio_thread,
                   writers, streams, thr, nsess, left, now, op>>

(* ------------------------------------------------------ the capture loops *)
\* a handler that leaves the flag as it is
HandlerKeepsFlag == recording

\* "self.recording = False" in the handlers (lines 317, 330; 238, 250)
HandlerFlag == FALSE

(* -------------------------------------------------------- _record_screen *)
\* "while self.recording:" (line 280; 190), then the screenshot is requested;
\* the screen delivers MaxFrames frames
VideoCheck(t) ==
    /\ vpc[t] = "check"
    /\ IF recording
       THEN /\ \/ video_writer = None
               \/ writers[video_writer] # "open"
               \/ ~Exists(files, temp_video_path)
               \/ Len(files[temp_video_path].frames) < MaxFrames
            /\ vpc' = [vpc EXCEPT ![t] = "capture"]
       ELSE vpc' = [vpc EXCEPT ![t] = "exited"]
    /\ UNCHANGED <<aux, cls, ffmpeg_available, supplied, ctl, res, apc, ard, nsess, left, now, pc, op, ret, nfaults>>

\* lines 287-317 (196-238): the screenshot comes back and the frame goes to
\* whatever self.video_writer is now, that is into the file that writer was
\* opened on (a writer that is not open ignores the frame).  A
\* failed capture, or self.video_writer being None (AttributeError), lands in
\* the handler, which clears the flag and ends the thread.
VideoCapture(t) ==
    /\ vpc[t] = "capture"
    /\ \E captured \in Outcomes :
          /\ nfaults' = Count(captured)
          /\ IF captured /\ video_writer # None
             THEN /\ files' = IF writers[video_writer] = "open" /\ Exists(files, temp_video_path)
                              THEN [files EXCEPT ![temp_video_path].frames = Append(@, t)]
                              ELSE files
                  /\ vpc' = [vpc EXCEPT ![t] = "check"]
                  /\ UNCHANGED recording
             ELSE /\ recording' = HandlerFlag
                  /\ vpc' = [vpc EXCEPT ![t] = "failed"]
                  /\ UNCHANGED files
    /\ UNCHANGED <<aux, cls, ffmpeg_available, supplied, video_writer, audio_stream, audio_frames, metadata,
                   temp_video_path, video_path, audio_path, video_thread, audio_thread,
                   writers, streams, apc, ard, nsess, left, now, pc, op, ret>>

(* --------------------------------------------------------- _record_audio *)
\* "while self.recording:" (line 322; 243), then the read is issued on
\* self.audio_stream; the device delivers MaxChunks chunks
AudioCheck(t) ==
    /\ apc[t] = "check"
    /\ IF recording
       THEN /\ Len(audio_frames) < MaxChunks
            /\ apc' = [apc EXCEPT ![t] = "read"]
            /\ ard' = [ard EXCEPT ![t] = audio_stream]
       ELSE /\ apc' = [apc EXCEPT ![t] = "exited"]
            /\ UNCHANGED ard
    /\ UNCHANGED <<aux, cls, ffmpeg_available, supplied, ctl, res, vpc, nsess, left, now, pc, op, ret, nfaults>>

\* lines 324-330 (245-250): the blocking read comes back and the chunk is
\* appended to whatever self.audio_frames is now; a read that raises lands in
\* the handler, which clears the flag and ends the thread.  A read on a stream
\* that stop_recording closed meanwhile may do either.
AudioRead(t) ==
    /\ apc[t] = "read"
    /\ \E returned \in (IF streams[ard[t]] = "closed" THEN BOOLEAN ELSE Outcomes) :
          /\ nfaults' = IF streams[ard[t]] = "closed" THEN nfaults ELSE Count(returned)
          /\ IF returned
             THEN /\ audio_frames' = Append(audio_frames, <<t, ard[t]>>)
                  /\ apc' = [apc EXCEPT ![t] = "check"]
                  /\ UNCHANGED recording
             ELSE /\ recording' = HandlerFlag
                  /\ apc' = [apc EXCEPT ![t] = "failed"]
                  /\ UNCHANGED audio_frames
    /\ ard' = [ard EXCEPT ![t] = None]
    /\ UNCHANGED <<aux, cls, ffmpeg_available, supplied, video_writer, audio_stream, metadata,
                   temp_video_path, video_path, audio_path, video_thread, audio_thread,
                   res, vpc, nsess, left, now, pc, op, ret>>

(* ------------------------------------------------------------ wall clock *)
\* The clock is read by start_recording (line 102; 68) and at the end of
\* stop_recording (line 267; 179): a second passes where a read can tell.
Tick ==
    /\ now < MaxTime
    /\ pc \in {"idle", "stop_end_time"}
    /\ now' = now + 1
    /\ UNCHANGED <<aux, cls, ffmpeg_available, supplied, ctl, res, thr, nsess, left, pc, op, ret, nfaults>>

(* ------------------------------------------- the pacing of the video loop *)
\* the frame rates followed (frames per second)
FpsValues == {1, 2, 3}

\* every iteration captures
AlwaysDue(elapsed) == TRUE

\* "if elapsed >= frame_interval", with frame_interval = 1.0 / self.fps
\* (lines 276, 285; 187, 194)
Due(elapsed) == elapsed * fps >= TicksPerSecond

\* lines 276-278 (187-188): the thread starts and reads the clock
PaceEnter ==
    /\ ppc = "unstarted"
    /\ last_capture_time' = clock
    /\ ppc' = "loop"
    /\ UNCHANGED <<fps, clock, current_time, captures>>

\* lines 280-282 (190-192): an iteration begins with a look at the clock
PaceRead ==
    /\ ppc = "loop"
    /\ current_time' = clock
    /\ ppc' = "decide"
    /\ UNCHANGED <<fps, clock, last_capture_time, captures>>

\* lines 285-303 (194-231): enough time has elapsed; one screenshot is taken
\* and written, and the time read at the top of the iteration is kept
PaceCapture ==
    /\ ppc = "decide"
    /\ Due(current_time - last_capture_time)
    /\ Len(captures) < MaxCaptures
    /\ captures' = Append(captures, current_time)
    /\ last_capture_time' = current_time
    /\ ppc' = "loop"
    /\ UNCHANGED <<fps, clock, current_time>>

\* lines 308-311 (232-234): not yet; time.sleep(0.001)
PaceSleep ==
    /\ ppc = "decide"
    /\ ~Due(current_time - last_capture_time)
    /\ ppc' = "loop"
    /\ UNCHANGED <<fps, clock, last_capture_time, current_time, captures>>

\* time passes, wherever the loop is (a screenshot takes its time)
PaceTick ==
    /\ clock < MaxTicks
    /\ clock' = clock + 1
    /\ UNCHANGED <<fps, last_capture_time, current_time, ppc, captures>>

InitPace ==
    /\ InitController /\ left = 0
    /\ fps \in FpsValues /\ clock \in 0..1 /\ last_capture_time = 0 /\ current_time = 0
    /\ ppc = "unstarted" /\ captures = << >>
    /\ AppInit /\ FrameIdle

NextPace ==
    /\ PaceEnter \/ PaceRead \/ PaceCapture \/ PaceSleep \/ PaceTick
    /\ UNCHANGED <<core, app, frm>>

SpecPace == InitPace /\ [][NextPace]_vars

(* ------------------------------------------------------------ RecorderApp *)
\* RecorderApp.start_recording, lines 489-530: the Start button is pressed.  A
\* new ScreenRecorder replaces self.recorder, the buttons are switched, the
\* app's flag is set and the countdown thread is started.
AppStart ==
    /\ start_button = "normal"
    /\ IF app_recording
       THEN UNCHANGED app
       ELSE \E r \in Recorders :
              /\ recorders[r] = "uncreated"
              /\ \A q \in Recorders : q < r => recorders[q] # "uncreated"
              /\ recorders' = [recorders EXCEPT ![r] = "idle"]
              /\ recorder' = r
              /\ start_button' = "disabled" /\ stop_button' = "normal"
              /\ app_recording' = TRUE
              /\ countdown' = [countdown EXCEPT ![r] = CountdownSeconds]
    /\ UNCHANGED <<core, pace, frm>>

\* lines 521-523: one second of the countdown, time.sleep(1)
CountdownSleep(k) ==
    /\ countdown[k] > 0
    /\ countdown' = [countdown EXCEPT ![k] = @ - 1]
    /\ UNCHANGED <<app_recording, recorder, start_button, stop_button, recorders>>
    /\ UNCHANGED <<core, pace, frm>>

\* line 526: the countdown is over and the thread calls
\* self.recorder.start_recording(), on whatever self.recorder is by then.
\* ScreenRecorder.start_recording (lines 95-176) returns False on a recorder
\* that is recording, and otherwise sets its flag unless a device fails to open.
CountdownStart(k) ==
    /\ countdown[k] = 0
    /\ countdown' = [countdown EXCEPT ![k] = Fired]
    /\ IF recorders[recorder] = "recording"
       THEN UNCHANGED recorders
       ELSE \E opened \in BOOLEAN :
              recorders' = IF opened THEN [recorders EXCEPT ![recorder] = "recording"]
                           ELSE recorders
    /\ UNCHANGED <<app_recording, recorder, start_button, stop_button>>
    /\ UNCHANGED <<core, pace, frm>>

\* RecorderApp.stop_recording, lines 532-566: the Stop button is pressed.
\* ScreenRecorder.stop_recording (lines 178-270) returns False on a recorder
\* that is not recording and otherwise clears its flag first; whether or not
\* it raises afterwards, the app's flag is cleared and the buttons are reset.
AppStop ==
    /\ stop_button = "normal"
    /\ IF ~app_recording
       THEN UNCHANGED app
       ELSE /\ recorders' = IF recorder # None /\ recorders[recorder] = "recording"
                            THEN [recorders EXCEPT ![recorder] = "stopped"]
                            ELSE recorders
            /\ app_recording' = FALSE
            /\ start_button' = "normal" /\ stop_button' = "disabled"
            /\ UNCHANGED <<recorder, countdown>>
    /\ UNCHANGED <<core, pace, frm>>

\* a capture loop of a recorder fails and its handler clears the recorder's
\* flag (lines 313-317, 328-330)
RecorderHalts(r) ==
    /\ recorders[r] = "recording"
    /\ recorders' = [recorders EXCEPT ![r] = "halted"]
    /\ UNCHANGED <<app_recording, recorder, start_button, stop_button, countdown>>
    /\ UNCHANGED <<core, pace, frm>>

InitApp == InitController /\ left = 0 /\ PaceIdle /\ AppInit /\ FrameIdle

NextApp ==
    \/ AppStart
    \/ AppStop
    \/ \E k \in Recorders : CountdownSleep(k)
    \/ \E k \in Recorders : CountdownStart(k)
    \/ \E r \in Recorders : RecorderHalts(r)

SpecApp == InitApp /\ [][NextApp]_vars

(* ------------------------------------------------------- the frame sizes *)
\* the displays and the regions followed
Screens == {<<1280, 720>>, <<1920, 1080>>, <<2560, 1440>>}
Regions == {<<0, 0, 1920, 1080>>, <<100, 50, 640, 480>>, <<1600, 900, 800, 600>>}

\* Image.crop((left, upper, right, lower)): the result has the size of the
\* box, whether or not the box lies inside the image
Crop(image, box) == <<box[3] - box[1], box[4] - box[2]>>

\* Image.resize(size)
Resize(image, size) == size

\* lines 82-96 (121-129): the container is opened with the region's width and
\* height when a region is set, and with self.resolution otherwise
FrameOpen ==
    /\ container = << >>
    /\ container' = IF region # NoRegion THEN <<region[3], region[4]>> ELSE Resolution
    /\ UNCHANGED <<region, screen, frames_written>>
    /\ UNCHANGED <<core, pace, app>>

\* lines 194-228 (285-299): one frame is captured and handed to the writer.
\* With a region the screenshot is cropped and not resized, and when that
\* raises the loop takes a second screenshot and uses it as it is; without a
\* region the screenshot is resized to self.resolution.
FrameCapture ==
    /\ container # << >>
    /\ Len(frames_written) < MaxWritten
    /\ LET screenshot == screen IN
         IF region # NoRegion
         THEN \E cropped \in BOOLEAN :
                frames_written' = Append(frames_written,
                                  IF cropped
                                  THEN LET lft == region[1]
                                           top == region[2]
                                           width == region[3]
                                           height == region[4]
                                       IN Crop(screenshot, <<lft, top, lft + width, top + height>>)
                                  ELSE screenshot)
         ELSE frames_written' = Append(frames_written, Resize(screenshot, Resolution))
    /\ UNCHANGED <<region, screen, container>>
    /\ UNCHANGED <<core, pace, app>>

\* only SimpleScreenRecorder takes a region
InitFrame ==
    /\ InitController /\ left = 0 /\ PaceIdle /\ AppInit
    /\ region \in (IF cls = "SimpleScreenRecorder" THEN Regions \cup {NoRegion} ELSE {NoRegion})
    /\ screen \in Screens
    /\ container = << >> /\ frames_written = << >>

NextFrame == FrameOpen \/ FrameCapture

SpecFrame == InitFrame /\ [][NextFrame]_vars

(* --------------------------------------------------------- specification *)
StartStep ==
    \/ start_recording \/ StartOpenAudio \/ StartSetFlag
    \/ StartVideoThread \/ StartAudioThread

StopStep ==
    \/ stop_recording \/ StopJoinVideo \/ StopJoinAudio \/ StopRelease \/ StopCloseStream
    \/ StopWriteWav \/ StopTranscode \/ StopCopy \/ StopSaveMetadata

VideoStep(t) == VideoCheck(t) \/ VideoCapture(t)

AudioStep(t) == AudioCheck(t) \/ AudioRead(t)

Next ==
    \/ \E kwargs \in Kwargs : set_metadata(kwargs)
    \/ StartStep
    \/ StopStep
    \/ \E t \in Sessions : VideoStep(t)
    \/ \E t \in Sessions : AudioStep(t)
    \/ Tick

Spec == Init /\ [][Next]_vars

\* the threads followed across sessions, at a fixed time and with the metadata
\* start_recording itself adds
NextRace ==
    \/ StartStep
    \/ StopStep
    \/ \E t \in Sessions : VideoStep(t)
    \/ \E t \in Sessions : AudioStep(t)

SpecRace == InitRace /\ [][NextRace]_vars

\* the caller's thread keeps running once it is inside stop_recording (the
\* subprocess call comes back); the loop threads may stall for ever
StopProgress ==
    \/ StopJoinVideo \/ StopJoinAudio \/ StopRelease \/ StopCloseStream
    \/ StopWriteWav \/ StopTranscode \/ StopCopy \/ StopSaveMetadata

SpecFair == Init /\ [][Next]_vars /\ WF_vars(StopProgress)

(* ---------------------------------------------------------------------- *)
(* Properties                                                              *)
(* ---------------------------------------------------------------------- *)
LiveVideo == {t \in Sessions : VideoLive(t)}
LiveAudio == {t \in Sessions : AudioLive(t)}
OpenWriters == {s \in Sessions : writers[s] = "open"}
OpenStreams == {s \in Sessions : streams[s] = "open"}

C2_StopWhenIdleIsNoOp ==
    [][(~recording /\ stop_recording)
          => /\ ret' = "False" /\ pc' = "idle"
             /\ UNCHANGED <<ctl, res, thr>>]_vars

\* stop_recording was rejected on a controller that was never started
C2_Witness == op = "stop" /\ ret = "False" /\ pc = "idle" /\ nsess = 0

\* stop_recording is past its joins: it is releasing, closing, reading the
\* buffer or writing the final files
Finalizing == pc \in {"stop_release", "stop_close_stream", "stop_wav", "stop_video", "stop_end_time"}

\* C3: at most one video-loop thread and at most one audio-loop thread of the
\* controller are live, in every reachable state.
C3_OneLoopOfEachKind == Cardinality(LiveVideo) <= 1 /\ Cardinality(LiveAudio) <= 1

\* C4 as stated: the recording flag is true if and only if both capture loops
\* of the session are running and stop_recording has not yet joined them.
C4_FlagIffLoopsUnjoined ==
    recording <=> /\ video_thread # None /\ VideoLive(video_thread)
                  /\ audio_thread # None /\ AudioLive(audio_thread)
                  /\ ~Finalizing

\* C4 as amended: whenever the recording flag is true and start_recording is
\* past launching its two threads, both capture loops of the current session
\* are live.
C4_FlagImpliesLoopsLive ==
    (recording /\ pc \notin {"start_video_thread", "start_audio_thread"})
        => /\ video_thread = nsess /\ VideoLive(nsess)
           /\ audio_thread = nsess /\ AudioLive(nsess)

\* the second session records, both its loops running, after start_recording returned
C4_Witness ==
    /\ recording /\ pc = "idle" /\ op = "start" /\ ret = "True" /\ nsess = 2
    /\ vpc[2] = "capture" /\ apc[2] = "read"

\* C5: once stop_recording is past its joins, no loop appends a chunk to the
\* audio buffer and no loop writes a frame to the container: the buffer is
\* read and the container released only after their writers have stopped.
C5_NoWriteWhileFinalizing ==
    [][Finalizing => /\ audio_frames' = audio_frames
                     /\ \A t \in Sessions : vpc'[t] # vpc[t] => files' = files]_vars

\* C6: once a capture loop of a session has ended on an exception, the other
\* loop of that session begins no further capture: at its next look at the
\* flag it exits.
C6_SiblingLoopExits ==
    [][\A s \in Sessions :
          /\ (vpc[s] = "failed" /\ apc[s] = "check") => apc'[s] # "read"
          /\ (apc[s] = "failed" /\ vpc[s] = "check") => vpc'[s] # "capture"]_vars

\* the metadata file of the session as it is on disk, read back
PersistedMetadata ==
    IF Has(metadata, "video_file") /\ Exists(files, MetadataPath(metadata.video_file))
    THEN files[MetadataPath(metadata.video_file)].data
    ELSE EmptyDict

\* C7: with candidate_name the one key supplied through set_metadata, a
\* start_recording that returned True has left start_time in the metadata; a
\* stop_recording at least one second later
\* that returned True, in a run where no call into the environment failed or
\* stalled and the microphone delivered audio, leaves the final video file and
\* the audio file on disk and start_time and end_time in the persisted metadata.
C7_StartStopScenario ==
    /\ (pc = "idle" /\ op = "start" /\ ret = "True") => Has(metadata, "start_time")
    /\ (/\ pc = "idle" /\ op = "stop" /\ ret = "True"
        /\ nfaults = 0 /\ DOMAIN supplied = {"candidate_name"} /\ audio_frames # << >>
        /\ now >= metadata.start_time + 1)
          => /\ Exists(files, video_path) /\ files[video_path].kind \in {"avi", "mp4"}
             /\ Exists(files, audio_path) /\ files[audio_path].kind = "wav"
             /\ Has(PersistedMetadata, "start_time") /\ Has(PersistedMetadata, "end_time")

\* a session named after the candidate was stopped a second after its start
C7_Witness ==
    /\ pc = "idle" /\ op = "stop" /\ ret = "True" /\ nfaults = 0
    /\ DOMAIN supplied = {"candidate_name"} /\ metadata.candidate_name # << >>
    /\ audio_frames # << >> /\ metadata.start_time = 0 /\ now = 1
    /\ Exists(files, video_path) /\ Exists(files, audio_path)

\* C8: a stop_recording that got past its guard does not raise, whichever
\* finalize step fails: it returns True with end_time recorded.
C8_FinalizeIsBestEffort ==
    (pc = "idle" /\ op = "stop" /\ ret # "False") => (ret = "True" /\ Has(metadata, "end_time"))

\* C9: a stop_recording that got past its guard returns, also when a capture
\* loop never exits.
C9_StopTerminates == (op = "stop" /\ pc # "idle") ~> (pc = "idle")

\* stop_recording has returned while the audio loop it gave up on is still in its read
C9_Witness ==
    /\ pc = "idle" /\ op = "stop" /\ ret = "True"
    /\ audio_thread # None /\ apc[audio_thread] = "read"

\* C10: a stream that is open is the one the controller holds (no stream is
\* replaced while open, and so left unclosed), and stop_recording closes it once.
C10_NoStreamLeftOpen == \A s \in Sessions : streams[s] = "open" => audio_stream = s

\* C11: when the intermediate container fails to open, start_recording
\* returns False with the flag false, and nothing of that session is ever
\* launched or opened: no video loop, no audio loop, no audio stream.
C11_OpenFailureStartsNothing ==
    /\ \A s \in Sessions :
          writers[s] = "failed"
            => streams[s] = "unopened" /\ vpc[s] = "unstarted" /\ apc[s] = "unstarted"
    /\ (pc = "idle" /\ op = "start" /\ nsess > 0 /\ writers[nsess] = "failed")
          => ret = "False" /\ ~recording

\* start_recording has returned False on a container that did not open
C11_Witness ==
    /\ pc = "idle" /\ op = "start" /\ ret = "False" /\ ~recording
    /\ nsess = 1 /\ writers[1] = "failed" /\ OpenStreams = {} /\ LiveVideo = {} /\ LiveAudio = {}

\* start_recording has come back without starting a session: the container did
\* not open, or opening the audio stream raised
FailedStart ==
    /\ pc = "idle" /\ op = "start" /\ nsess > 0
    /\ ret = "raised" \/ (ret = "False" /\ writers[nsess] = "failed")

\* C12: a failed start_recording, whichever step failed, leaves no file of the
\* session behind and leaves neither its video writer nor its audio stream open.
C12_FailedStartLeavesNothing ==
    FailedStart => /\ writers[nsess] # "open" /\ streams[nsess] # "open"
                   /\ ~Exists(files, temp_video_path)

\* stop_recording has come back from a session it did finalize, in a run where
\* no call into the environment failed or stalled
CleanStop == pc = "idle" /\ op = "stop" /\ ret # "False" /\ nfaults = 0

\* C13: with ffmpeg found unavailable by __init__, stop_recording on a
\* recording session returns True, and the final video is the intermediate
\* file copied unchanged under the .avi name, which video_path then names.
C13_NoTranscoderFallback ==
    (CleanStop /\ cls = "ScreenRecorder" /\ ~ffmpeg_available)
        => /\ ret = "True"
           /\ video_path = PathOf(temp_video_path[1], "_video.avi")
           /\ Exists(files, video_path) /\ Exists(files, temp_video_path)
           /\ files[video_path] = files[temp_video_path]

\* a session with a frame in it was finalized without ffmpeg
C13_Witness ==
    /\ CleanStop /\ cls = "ScreenRecorder" /\ ~ffmpeg_available /\ ret = "True"
    /\ Exists(files, video_path) /\ files[video_path].frames # << >>

\* C14: when ffmpeg is available but its run fails (non-zero exit code or an
\* exception), and nothing else does, that step of stop_recording copies the
\* intermediate file unchanged to the final path under the .avi name, makes
\* video_path name it, and goes on to the next step without raising.
C14_TranscodeFailureFallsBack ==
    [][(StopTranscode /\ ffmpeg_available /\ Exists(files, temp_video_path)
          /\ nfaults' = nfaults + 1)
         => /\ pc' = "stop_end_time" /\ ret' = ret
            /\ video_path' = PathOf(temp_video_path[1], "_video.avi")
            /\ Exists(files', video_path')
            /\ files'[video_path'] = files[temp_video_path]]_vars

\* stop_recording has returned True after a failed ffmpeg run: the .avi copy
\* is there and no .mp4 is
C14_Witness ==
    /\ pc = "idle" /\ op = "stop" /\ ret = "True"
    /\ cls = "ScreenRecorder" /\ ffmpeg_available
    /\ video_path = PathOf(temp_video_path[1], "_video.avi") /\ Exists(files, video_path)
    /\ ~Exists(files, PathOf(temp_video_path[1], "_video.mp4"))

\* C15: whenever stop_recording has returned True, the session's intermediate
\* video file no longer exists.
C15_IntermediateRemoved ==
    (pc = "idle" /\ op = "stop" /\ ret = "True") => ~Exists(files, temp_video_path)

\* the path _save_metadata would write to for the metadata md
SavePath(md) == MetadataPath(md.video_file)

\* C16 as stated: outside start_recording no step changes the intermediate,
\* final-video or audio path, nor the path of the metadata file.
C16_PathsNeverChange ==
    [][~StartStep
         => /\ UNCHANGED <<temp_video_path, video_path, audio_path>>
            /\ (Has(metadata, "video_file") /\ Has(metadata', "video_file"))
                  => SavePath(metadata') = SavePath(metadata)]_vars

\* C16 as amended: outside start_recording the intermediate and audio paths
\* never change; the final-video path changes only in stop_recording's
\* fallback copy, which keeps the base name computed at start and switches
\* the suffix to .avi; and no step other than a set_metadata call that itself
\* supplies video_file changes the path the metadata is persisted to.
C16_BaseNameFixedAtStart ==
    [][~StartStep
         => /\ UNCHANGED <<temp_video_path, audio_path>>
            /\ video_path' # video_path
                  => /\ pc = "stop_video" /\ cls = "ScreenRecorder"
                     /\ video_path' = PathOf(temp_video_path[1], "_video.avi")
            /\ (Has(metadata, "video_file")
                  /\ ~ \E kw \in Kwargs : Has(kw, "video_file") /\ set_metadata(kw))
                  => /\ Has(metadata', "video_file")
                     /\ SavePath(metadata') = SavePath(metadata)]_vars

\* a session whose candidate name was supplied only after its start has been
\* finalized through the fallback copy: its files keep the name computed at start
C16_Witness ==
    /\ pc = "idle" /\ op = "stop" /\ ret = "True" /\ cls = "ScreenRecorder"
    /\ Has(metadata, "candidate_name") /\ metadata.candidate_name # << >>
    /\ video_path = PathOf(<<"screen_recording_", 0>>, "_video.avi")
    /\ now = 1 /\ Exists(files, video_path)

\* C17: once start_recording has returned True, in a run where no call into
\* the environment failed, a metadata file containing start_time is on disk.
C17_MetadataPersistedAtStart ==
    (pc = "idle" /\ op = "start" /\ ret = "True" /\ nfaults = 0)
        => \E path \in DOMAIN files :
              files[path].kind = "json" /\ Has(files[path].data, "start_time")

\* the fields the controller itself puts into the metadata
ControllerFields == {"start_time", "end_time", "video_file", "audio_file"}

\* stop_recording has returned True in a run without failures, and the
\* metadata file it wrote holds the metadata as they still are
FinalMetadataWritten ==
    /\ pc = "idle" /\ op = "stop" /\ ret = "True" /\ nfaults = 0
    /\ DOMAIN PersistedMetadata = DOMAIN metadata
    /\ \A k \in DOMAIN metadata : PersistedMetadata[k] = metadata[k]

\* C18: the metadata file written by stop_recording, read back, holds every
\* pair supplied through set_metadata with the supplied value, and the
\* controller's start_time, end_time, video_file and audio_file.
C18_RoundTrip ==
    FinalMetadataWritten
        => /\ \A k \in DOMAIN supplied :
                 Has(PersistedMetadata, k) /\ PersistedMetadata[k] = supplied[k]
           /\ ControllerFields \subseteq DOMAIN PersistedMetadata

\* C19: a set_metadata call leaves each key it supplies at the supplied value,
\* leaves every other key at its previous value, and adds or drops nothing
\* else; so after any sequence of calls each key holds the value of the last
\* call that supplied it.
C19_SetMetadataMerges ==
    [][\A kw \in Kwargs :
          set_metadata(kw)
            => /\ DOMAIN metadata' = DOMAIN metadata \cup DOMAIN kw
               /\ \A k \in DOMAIN kw : metadata'[k] = kw[k]
               /\ \A k \in DOMAIN metadata \ DOMAIN kw : metadata'[k] = metadata[k]]_vars

\* calls made before any session have left the pairs of two different calls
\* side by side in the metadata
C19_Witness ==
    /\ nsess = 0 /\ DOMAIN metadata = {"candidate_name", "video_file", "end_time"}
    /\ metadata.candidate_name = << >> /\ metadata.end_time = SuppliedTime
    /\ metadata.video_file = SuppliedFile

\* every candidate name of at most MaxLen characters
AllNames == UNION {[1..n -> Chars] : n \in 0..MaxLen}

\* prefix is name with each character isalnum() rejects replaced by "_"
IsSanitized(prefix, name) ==
    /\ Len(prefix) = Len(name)
    /\ \A i \in 1..Len(name) :
          prefix[i] = (IF name[i] \in Alnum THEN name[i] ELSE "_")

\* C20: the prefix derived from a candidate name has the length of the name,
\* keeps each alphanumeric character in place and has "_" in place of every
\* other character; and a start_recording that gets past its guard names its
\* files <that prefix>_interview_<timestamp> when candidate_name is present
\* and non-empty, and screen_recording_<timestamp> otherwise.
C20_SanitizedPrefix ==
    /\ \A name \in AllNames : IsSanitized(Sanitize(name), name)
    /\ [][(start_recording /\ ~recording)
            => LET base == temp_video_path'[1] IN
                 /\ video_path'[1] = base /\ audio_path'[1] = base
                 /\ IF Has(metadata, "candidate_name") /\ metadata.candidate_name # << >>
                    THEN /\ Len(base) = 3 /\ base[2] = "_interview_" /\ base[3] = now
                         /\ IsSanitized(base[1], metadata.candidate_name)
                    ELSE base = <<"screen_recording_", now>>]_vars

\* a session was started under a name with an apostrophe in it
C20_Witness ==
    /\ pc = "idle" /\ op = "start" /\ ret = "True"
    /\ Has(metadata, "candidate_name") /\ metadata.candidate_name = <<"J", "'", "b">>
    /\ temp_video_path = PathOf(<<(<<"J", "_", "b">>), "_interview_", 0>>, "_temp.avi")

\* C21: in every window of T ticks the number n of captures started is at
\* most fps * T + 1 with T in seconds, that is (n - 1) * TicksPerSecond <=
\* fps * T; and two consecutive captures are started at least one frame
\* interval apart.
C21_CapturesPaced ==
    /\ \A a \in 0..MaxTicks : \A T \in 0..MaxTicks :
          LET n == Cardinality({i \in DOMAIN captures :
                                  a <= captures[i] /\ captures[i] <= a + T})
          IN (n - 1) * TicksPerSecond <= fps * T
    /\ \A i \in 1..(Len(captures) - 1) :
          (captures[i + 1] - captures[i]) * fps >= TicksPerSecond

\* at three frames per second four captures were started within one second,
\* the first two exactly one frame interval apart
C21_Witness ==
    /\ fps = 3 /\ Len(captures) = 4
    /\ captures[4] - captures[1] <= TicksPerSecond
    /\ (captures[2] - captures[1]) * fps = TicksPerSecond

\* C22: a start_recording that returns True carries nothing of an earlier
\* session over: unless the caller supplied one, the metadata it builds, and
\* the metadata file it writes, hold no end_time.
C22_NothingOfEarlierSession ==
    [][(StartAudioThread /\ ~Has(supplied, "end_time"))
         => /\ ~Has(metadata', "end_time")
            /\ (Has(files', SavePath(metadata')) /\ files'[SavePath(metadata')].kind = "json")
                 => (files'[SavePath(metadata')].data = metadata'
                       => ~Has(files'[SavePath(metadata')].data, "end_time"))]_vars

\* stop_recording has cleared the flag of session t: it is inside the stop of
\* that session, or has released its container or closed its stream
StopSignalled(t) ==
    \/ t = nsess /\ op = "stop" /\ pc # "idle"
    \/ writers[t] = "released"
    \/ streams[t] = "closed"

\* C23: once stop_recording has cleared the flag of a session, the session's
\* video loop and audio loop start no further capture or read: each finishes
\* the one in flight, if any, and exits.
C23_NoCaptureAfterStop ==
    [][\A t \in Sessions :
         StopSignalled(t) => /\ ~(VideoCheck(t) /\ vpc'[t] = "capture")
                             /\ ~(AudioCheck(t) /\ apc'[t] = "read")]_vars

\* C24: stop_recording goes through its steps in one order: flag cleared,
\* join of the video thread, join of the audio thread, container released,
\* audio stream closed, WAV written, transcode/copy, end_time and the metadata
\* file.  The transcode/copy never runs while the session's container is still
\* open or referenced, the WAV file is never written while the session's
\* stream is open, and end_time is recorded by the last step only.
C24_StopStepsInOrder ==
    [][LET order == <<"stop_join_video", "stop_join_audio", "stop_release",
                      "stop_close_stream", "stop_wav", "stop_video", "stop_end_time">>
       IN /\ (op = "stop" /\ pc # "idle" /\ pc' # pc)
                => \/ pc' = "idle"
                   \/ \E i \in 1..(Len(order) - 1) : pc = order[i] /\ pc' = order[i + 1]
          /\ (stop_recording /\ pc' # "idle") => (~recording' /\ pc' = order[1])
          /\ (StopJoinVideo \/ StopJoinAudio) => ~recording
          /\ (StopTranscode \/ StopCopy) => (video_writer = None /\ writers[nsess] # "open")
          /\ StopWriteWav => streams[nsess] # "open"
          /\ (Has(metadata', "end_time") /\ ~Has(metadata, "end_time"))
                => \/ pc = "stop_end_time" /\ pc' = "idle"
                   \/ \E kwargs \in Kwargs : set_metadata(kwargs)]_vars

\* a stop_recording that went through every step: container released, stream
\* closed, WAV and final video written, end_time recorded
C24_Witness ==
    /\ op = "stop" /\ ret = "True" /\ pc = "idle"
    /\ writers[nsess] = "released" /\ streams[nsess] = "closed"
    /\ Exists(files, audio_path) /\ Exists(files, video_path)
    /\ Has(metadata, "end_time")

\* C25: the buffer stop_recording writes to the WAV file holds the chunks the
\* session's own audio loop read from the session's own stream since the
\* start, and nothing else: start_recording empties the buffer, and no chunk
\* read by the loop of an earlier session is in it.
C25_WavHoldsSessionChunks ==
    [][/\ (StartOpenAudio /\ pc' = "start_flag") => audio_frames' = << >>
       /\ StopWriteWav => \A i \in DOMAIN audio_frames : audio_frames[i] = <<nsess, nsess>>
       /\ (StopWriteWav /\ files' # files)
             => files'[audio_path].data = audio_frames]_vars

\* C26: a session one of whose capture loops has failed can still be
\* finalized: once stop_recording has been called on it and has returned
\* (without raising), the container is released, the stream closed and
\* end_time recorded.
C26_StopFinalizesAfterLoopFailure ==
    (/\ nsess > 0 /\ (vpc[nsess] = "failed" \/ apc[nsess] = "failed")
     /\ op = "stop" /\ pc = "idle" /\ ret # "raised")
        => /\ writers[nsess] = "released"
           /\ streams[nsess] = "closed"
           /\ Has(metadata, "end_time")

\* C27: a capture loop of an earlier session leaves a later session alone:
\* it writes no frame into the later session's container, appends no chunk to
\* the later session's buffer and does not clear the later session's flag.
C27_LeftoverLoopsAreHarmless ==
    [][\A t \in Sessions :
         t < nsess =>
           /\ VideoCapture(t) => files' = files
           /\ (AudioRead(t) /\ audio_stream = nsess) => audio_frames' = audio_frames
           /\ ((VideoCapture(t) \/ AudioRead(t)) /\ recording) => recording']_vars

\* C28: after a stop_recording that returned True and wrote the final
\* metadata (video_file not being a key the caller supplied), the video_file of
\* the persisted metadata is the controller's video_path, and the file of that
\* name exists.
C28_VideoFileNamesFinalVideo ==
    (/\ pc = "idle" /\ op = "stop" /\ ret = "True"
     /\ DOMAIN supplied \subseteq {"candidate_name"}
     /\ Has(PersistedMetadata, "end_time"))
        => /\ PersistedMetadata.video_file = video_path
           /\ Exists(files, video_path)

\* C29: whenever a recorder the front end created is recording, the front
\* end's own flag is set and self.recorder is that recorder, so that the Stop
\* button (enabled) reaches it.
C29_RecordingRecorderCanBeStopped ==
    \A r \in Recorders :
       recorders[r] = "recording"
          => (app_recording /\ recorder = r /\ stop_button = "normal")

\* C30: every frame handed to the writer has the width and height the
\* container was opened with.
C30_FramesFitContainer ==
    \A i \in DOMAIN frames_written : frames_written[i] = container

====
